---- MODULE Spec2Model ----
(***************************************************************************)
(* Imaginary-mode validation of a transition-state candidate               *)
(* (autode/transition_states/base.py).                                     *)
(*                                                                         *)
(* Lengths and atomic weights are fixed-point numbers in tenths            *)
(* (0.3 is 3, 1.0 is 10), so every comparison of the source is an exact    *)
(* integer comparison.  A Python result is one of the strings "True",      *)
(* "False", or the name of the exception that left the function.           *)
(***************************************************************************)
EXTENDS Integers, Sequences, FiniteSets, TLC

\* ------------------------------------------------------------ bounds
\* number of atoms of the species
NAtoms == 3
\* largest number of forming plus breaking bonds of a rearrangement
MaxBonds == 2
\* largest number of imaginary frequencies a calculation reports
MaxFreqs == 2

Atoms == 0..(NAtoms - 1)

\* an edge as networkx yields it for nodes added in index order: (lower, higher)
Pairs == {p \in Atoms \X Atoms : p[1] < p[2]}

\* a bond as a caller may write it: either order of the two indices
OrientedPairs == {p \in Atoms \X Atoms : p[1] # p[2]}

Canon(bond) == IF bond[1] < bond[2] THEN bond ELSE <<bond[2], bond[1]>>

RECURSIVE Sum(_, _)
Sum(f, S) == IF S = {} THEN 0
             ELSE LET x == CHOOSE y \in S : TRUE IN f[x] + Sum(f, S \ {x})

\* ------------------------------------------------------------ state
VARIABLES
    pc,                  \* position inside the running call
    entry,               \* the function the caller invoked
    threshold,           \* could_have_correct_imag_mode's threshold argument
    result,              \* value returned (or exception raised) by the call
    calc,                \* self.calc
    bond_rearrangement,  \* self.bond_rearrangement
    reactant,            \* isomorphism class of self.reactant.graph
    product,             \* isomorphism class of self.product.graph
    trace,               \* stages and calculations of the running call, in order
    hess_runs,           \* Hessian calculations run for this candidate
    last_run,            \* the calculation run most recently
    stage,               \* what each stage of has_correct_imag_mode returned
    prev,                \* the previous completed Quick Screener call
    val,                 \* locals of imag_mode_has_correct_displacement
    lnk,                 \* locals of imag_mode_links_reactant_products
    args                 \* arguments of a direct call of a helper

vars == <<pc, entry, threshold, result, calc, bond_rearrangement, reactant,
          product, trace, hess_runs, last_run, stage, prev, val, lnk, args>>

\* ------------------------------------------------------------ constants of the code
\* threshold=-50 of could_have_correct_imag_mode
DefaultFreqThreshold == -50
\* threshold=0.1 of ts_has_contribution_from_active_atoms, as 1/10
ContributionNum == 1
ContributionDen == 10
\* the factor of "+ 10 * imag_mode_magnitudes[i]"
MagnitudeFactor == 10
\* delta_threshold=0.3 of imag_mode_has_correct_displacement, in tenths
DeltaThreshold == 3

\* ------------------------------------------------------------ data
ImagFreqs == {-80, -50}
Thresholds == {DefaultFreqThreshold, -60}

\* get_imag_freqs(): negative frequencies, the most negative first
FreqLists ==
    {s \in UNION {[1..n -> ImagFreqs] : n \in 0..MaxFreqs} :
        \A i \in 1..(Len(s) - 1) : s[i] <= s[i + 1]}

Labels == {"H", "C"}

\* displacement vectors of one atom in a normal mode, with norms 0, 1 and 5
DispVecs == {<<0, 0, 0>>, <<0, -1, 0>>, <<3, 4, 0>>}
ZeroVec == <<0, 0, 0>>

ISqrt(n) == CHOOSE r \in 0..n : r * r <= n /\ (r + 1) * (r + 1) > n

\* autode.geom.length: the Euclidean norm
length(v) == ISqrt(v[1] * v[1] + v[2] * v[2] + v[3] * v[3])

\* autode.atoms.get_atomic_weight, rounded to tenths
get_atomic_weight(label) == IF label = "H" THEN 10 ELSE 120

ZeroModes == [i \in Atoms |-> ZeroVec]
ExampleAtoms == [i \in Atoms |-> IF i = 0 THEN "C" ELSE "H"]

\* self.calc = None
NoCalc == [attached |-> FALSE, name |-> "none", imag_freqs |-> <<>>,
           has_modes |-> FALSE, modes |-> ZeroModes,
           has_atoms |-> FALSE, atoms |-> ExampleAtoms]

\* mode 6 of the candidate: nothing moves, or exactly one atom does
ExampleModes ==
    {ZeroModes} \cup
    {[i \in Atoms |-> IF i = a THEN <<0, 0, -10>> ELSE ZeroVec] : a \in Atoms}

\* what a calculation on the candidate can hold once it has run
CalcResults(nm) ==
    {[attached |-> TRUE, name |-> nm, imag_freqs |-> fr,
      has_modes |-> hm, modes |-> IF hm THEN m ELSE ZeroModes,
      has_atoms |-> ha, atoms |-> ExampleAtoms] :
        fr \in FreqLists, hm \in BOOLEAN, m \in ExampleModes, ha \in BOOLEAN}

\* ------------------------------------------------------------ bond rearrangement
BondsOf(S) == {Canon(b) : b \in S}

\* forming and breaking bonds over the pairs P: distinct bonds, at most MaxBonds
Rearrangements(P) ==
    {[fbonds |-> f, bbonds |-> b] : f \in SUBSET P, b \in SUBSET P}

WellFormed(br) ==
    /\ Cardinality(br.fbonds) + Cardinality(br.bbonds) <= MaxBonds
    /\ Cardinality(BondsOf(br.fbonds \cup br.bbonds))
          = Cardinality(br.fbonds) + Cardinality(br.bbonds)

BondRearrangements == {br \in Rearrangements(Pairs) : WellFormed(br)}
OrientedRearrangements == {br \in Rearrangements(OrientedPairs) : WellFormed(br)}

\* bond_rearrangement.all
all_bonds(br) == br.fbonds \cup br.bbonds

\* bond_rearrangement.active_atoms
active_atoms(br) == {b[1] : b \in all_bonds(br)} \cup {b[2] : b \in all_bonds(br)}

ExampleRearrangements ==
    {[fbonds |-> {<<1, 2>>}, bbonds |-> {}],
     [fbonds |-> {<<0, 1>>}, bbonds |-> {<<1, 2>>}]}

\* ------------------------------------------------------------ Quick Screener
imag_mode_magnitudes(c) == [i \in Atoms |-> length(c.modes[i])]

\* the magnitude multiplied by the atomic weight instead of added to it
weighted_imag_mode_magnitudes_product(c) ==
    [i \in Atoms |->
        get_atomic_weight(c.atoms[i]) * MagnitudeFactor * imag_mode_magnitudes(c)[i]]

\* line 139
weighted_imag_mode_magnitudes(c) ==
    [i \in Atoms |->
        get_atomic_weight(c.atoms[i]) + MagnitudeFactor * imag_mode_magnitudes(c)[i]]

sum_active_atom_magnitudes(c, active) == Sum(weighted_imag_mode_magnitudes(c), active)

sum_all_magnitudes(c) == Sum(weighted_imag_mode_magnitudes(c), Atoms)

\* rel_contribution > threshold, with rel_contribution = active / all and
\* threshold = ContributionNum / ContributionDen, cross-multiplied
contribution_exceeds(c, active) ==
    sum_active_atom_magnitudes(c, active) * ContributionDen
        > ContributionNum * sum_all_magnitudes(c)

ts_has_contribution_from_active_atoms(c, active) ==
    IF ~c.has_modes THEN "False"               \* NoNormalModesFound, NoCalculationOutput
    ELSE IF ~c.has_atoms THEN "AtomsNotFound"  \* get_final_atoms() outside the try
    ELSE IF contribution_exceeds(c, active) THEN "True"
    ELSE "False"

\* could_have_correct_imag_mode with ">=" for ">" in line 60
could_have_correct_imag_mode_ge(c, th, active) ==
    IF Len(c.imag_freqs) = 0 THEN "False"
    ELSE IF c.imag_freqs[1] >= th THEN "False"
    ELSE ts_has_contribution_from_active_atoms(c, active)

\* the part of could_have_correct_imag_mode after the Hessian is attached
could_have_correct_imag_mode(c, th, active) ==
    IF Len(c.imag_freqs) = 0 THEN "False"
    ELSE IF c.imag_freqs[1] > th THEN "False"
    ELSE ts_has_contribution_from_active_atoms(c, active)  \* its result, or its exception

\* the Hessian run whether or not a calculation is attached
needs_hessian_always(c) == TRUE

\* "if self.calc is None"
needs_hessian(c) == ~c.attached

\* ------------------------------------------------------------ locals
EmptyTable == [b \in {} |-> 0]

NoStage == [screen |-> "none", disp |-> "none", link |-> "none"]
NoPrev == [valid |-> FALSE, threshold |-> 0, result |-> "none"]
NoVal == [ts_graph |-> {}, f_graph |-> {}, b_graph |-> {}, flagged |-> "none",
          ts_dist |-> EmptyTable, f_dist |-> EmptyTable, b_dist |-> EmptyTable,
          f_ok |-> "none", b_ok |-> "none"]
NoMol == [atoms |-> FALSE, graph |-> "none", failed |-> FALSE]
NoLnk == [f_mol |-> NoMol, b_mol |-> NoMol, iso1 |-> "none", iso2 |-> "none"]
NoArgs == [active_atoms |-> {}, scale |-> 1, num |-> 0, den |-> 1, first |-> "none"]

Bool(b) == IF b THEN "True" ELSE "False"

\* ------------------------------------------------------------ calls
\* a caller invokes could_have_correct_imag_mode(threshold=th)
CallCouldHave ==
    /\ pc \in {"idle", "done"}
    /\ \E th \in Thresholds : threshold' = th
    /\ entry' = "could_have"
    /\ pc' = "screen_hess"
    /\ result' = "none"
    /\ trace' = <<"screener">>
    /\ stage' = NoStage
    /\ val' = NoVal
    /\ lnk' = NoLnk
    /\ UNCHANGED <<calc, bond_rearrangement, reactant, product, hess_runs,
                   last_run, prev, args>>

\* a caller invokes has_correct_imag_mode(calc=c); line 73 sets self.calc
CallHasCorrect ==
    /\ pc \in {"idle", "done"}
    /\ \E c \in {NoCalc} \cup CalcResults("given") :
          /\ calc' = IF c.attached THEN c ELSE calc
          /\ prev' = IF c.attached /\ c # calc THEN NoPrev ELSE prev
    /\ entry' = "has_correct"
    /\ threshold' = DefaultFreqThreshold
    /\ pc' = "screen_hess"
    /\ result' = "none"
    /\ trace' = <<"screener">>
    /\ stage' = NoStage
    /\ val' = NoVal
    /\ lnk' = NoLnk
    /\ UNCHANGED <<bond_rearrangement, reactant, product, hess_runs, last_run, args>>

\* lines 44-49: run and attach a Hessian calculation when none is attached
ScreenHess ==
    /\ pc = "screen_hess"
    /\ pc' = "screen_freqs"
    /\ IF needs_hessian(calc)
       THEN /\ \E c \in CalcResults("ts_hess") : calc' = c
            /\ hess_runs' = hess_runs + 1
            /\ last_run' = "ts_hess"
            /\ trace' = Append(trace, "hessian")
       ELSE UNCHANGED <<calc, hess_runs, last_run, trace>>
    /\ UNCHANGED <<entry, threshold, result, bond_rearrangement, reactant, product,
                   stage, prev, val, lnk, args>>

\* has_correct_imag_mode going on to the validator whatever the screener said
after_screener_ignored(r) == "validator"

\* has_correct_imag_mode, lines 80-81: what follows the Quick Screener's result r
after_screener(r) == IF r = "True" THEN "validator" ELSE "done"

\* lines 51-69, and the caller's use of the result
Screen ==
    /\ pc = "screen_freqs"
    /\ LET r == could_have_correct_imag_mode(calc, threshold,
                                             active_atoms(bond_rearrangement))
           next == IF entry = "could_have" THEN "done" ELSE after_screener(r)
       IN  /\ stage' = [stage EXCEPT !.screen = r]
           /\ prev' = [valid |-> TRUE, threshold |-> threshold, result |-> r]
           /\ pc' = next
           /\ result' = IF next = "done" THEN r ELSE result
           /\ trace' = IF next = "done" THEN trace ELSE Append(trace, "validator")
    /\ UNCHANGED <<entry, threshold, calc, bond_rearrangement, reactant, product,
                   hess_runs, last_run, val, lnk, args>>

\* ------------------------------------------------------------ Spurious-Bond Detector
\* "bond in graph.edges" of an undirected networkx graph: either order matches
edge_in(bond, graph) == bond \in graph \/ <<bond[2], bond[1]>> \in graph

\* line 257
new_bonds_in_product(product_graph, ts_graph) ==
    {bond \in product_graph : ~edge_in(bond, ts_graph)}

\* line 260: membership in bond_rearrangement.all compares the tuples
generates_other_bonds(product_graph, ts_graph, br) ==
    \E bond \in new_bonds_in_product(product_graph, ts_graph) :
        bond \notin all_bonds(br)

imag_mode_generates_other_bonds(ts_graph, f_graph, b_graph, br) ==
    \/ generates_other_bonds(f_graph, ts_graph, br)
    \/ generates_other_bonds(b_graph, ts_graph, br)

\* graphs make_graph(rel_tolerance=0.3) can give the three species: the TS with
\* at most one bond, each displaced species one bond more or less than the TS
SmallGraphs == {{}} \cup {{p} : p \in Pairs}
NearGraphs(g) == {g} \cup {g \cup {p} : p \in Pairs} \cup {g \ {p} : p \in Pairs}
GraphTriples ==
    UNION {{[ts |-> t, f |-> f, b |-> b] : f \in NearGraphs(t), b \in NearGraphs(t)} :
              t \in SmallGraphs}

\* ------------------------------------------------------------ Displacement Validator
\* Species.get_distance(i, j): symmetric in the two atoms
get_distance(dist, bond) == dist[Canon(bond)]

\* line 221 with ">=" for ">"
fbond_correct_ge(ts_dist, p_dist, fbond) ==
    get_distance(ts_dist, fbond) - get_distance(p_dist, fbond) >= DeltaThreshold

\* line 221
fbond_correct(ts_dist, p_dist, fbond) ==
    get_distance(ts_dist, fbond) - get_distance(p_dist, fbond) > DeltaThreshold

\* line 233
bbond_correct(ts_dist, p_dist, bbond) ==
    get_distance(p_dist, bbond) - get_distance(ts_dist, bbond) > DeltaThreshold

\* lines 213-240: all(fbond_bbond_correct_disps)
all_correct_disps(ts_dist, p_dist, br) ==
    /\ \A fbond \in br.fbonds : fbond_correct(ts_dist, p_dist, fbond)
    /\ \A bbond \in br.bbonds : bbond_correct(ts_dist, p_dist, bbond)

\* distances (tenths) of the active bonds in the TS and in a displaced species
TsDists == {20, 21}
TrialDists == {17, 24}
Tables(br, D) == [BondsOf(all_bonds(br)) -> D]

\* has_correct_imag_mode, lines 83-88: what follows the validator's result r
after_validator(r) == IF r = "True" THEN "done" ELSE "link_opt_f"

\* the validator returns r to whoever called it, leaving its locals v; they are
\* gone once has_correct_imag_mode goes on to the linker
ValReturn(r, v) ==
    LET next == IF entry = "has_correct" THEN after_validator(r) ELSE "done"
    IN  /\ stage' = [stage EXCEPT !.disp = r]
        /\ val' = IF next = "done" THEN v ELSE NoVal
        /\ pc' = next
        /\ result' = IF next = "done" THEN r ELSE result
        /\ trace' = IF next = "done" THEN trace ELSE Append(trace, "linker")

\* lines 198-208 (and 248-266): displace, rebuild the graphs, look for other bonds
ValDetect ==
    /\ pc = "validator"
    /\ \E g \in GraphTriples :
          LET flagged == imag_mode_generates_other_bonds(g.ts, g.f, g.b,
                                                         bond_rearrangement)
              v == [NoVal EXCEPT !.ts_graph = g.ts, !.f_graph = g.f,
                                 !.b_graph = g.b, !.flagged = Bool(flagged)]
          IN  IF entry = "detector"
              THEN /\ pc' = "done"
                   /\ result' = Bool(flagged)
                   /\ val' = v
                   /\ UNCHANGED <<stage, trace>>
              ELSE IF flagged
              THEN ValReturn("False", v)
              ELSE /\ pc' = "trial_f"
                   /\ val' = v
                   /\ UNCHANGED <<stage, trace, result>>
    /\ UNCHANGED <<entry, threshold, calc, bond_rearrangement, reactant, product,
                   hess_runs, last_run, prev, lnk, args>>

\* lines 211-242, first pass of the loop: product = f_species.  The graphs are
\* not read again and leave the state here.
ValTrialForward ==
    /\ pc = "trial_f"
    /\ \E ts \in Tables(bond_rearrangement, TsDists),
          f \in Tables(bond_rearrangement, TrialDists) :
          LET ok == all_correct_disps(ts, f, bond_rearrangement)
              v == [NoVal EXCEPT !.flagged = val.flagged, !.ts_dist = ts,
                                 !.f_dist = f, !.f_ok = Bool(ok)]
          IN  IF ok
              THEN ValReturn("True", v)
              ELSE /\ pc' = "trial_b"
                   /\ val' = v
                   /\ UNCHANGED <<stage, trace, result>>
    /\ UNCHANGED <<entry, threshold, calc, bond_rearrangement, reactant, product,
                   hess_runs, last_run, prev, lnk, args>>

\* lines 211-245, second pass of the loop: product = b_species
ValTrialBackward ==
    /\ pc = "trial_b"
    /\ \E b \in Tables(bond_rearrangement, TrialDists) :
          LET ok == all_correct_disps(val.ts_dist, b, bond_rearrangement)
          IN  ValReturn(Bool(ok), [val EXCEPT !.b_dist = b, !.b_ok = Bool(ok)])
    /\ UNCHANGED <<entry, threshold, calc, bond_rearrangement, reactant, product,
                   hess_runs, last_run, prev, lnk, args>>

\* ------------------------------------------------------------ Optimization Linker
\* isomorphism classes of molecular graphs
GraphClasses == {"R", "P", "X"}

\* species_are_isomorphic(mol, other), other's graph being of class g
species_are_isomorphic(mol, g) == mol.graph = g

\* lines 313-327
forwards_backwards_are_isomorphic_to_reactants_and_products(forwards, backwards, r, p) ==
    IF ~forwards.atoms \/ ~backwards.atoms THEN FALSE
    ELSE IF species_are_isomorphic(backwards, r) /\ species_are_isomorphic(forwards, p)
    THEN TRUE
    ELSE IF species_are_isomorphic(forwards, r) /\ species_are_isomorphic(backwards, p)
    THEN TRUE
    ELSE FALSE

\* lines 330-348.  The Molecule is built from the displaced atoms, whose graph
\* is of class g0; when the optimisation gives final atoms (ok) they replace
\* the displaced ones and the graph is rebuilt (class g1), and when it raises
\* AtomsNotFound the species is returned as it was built.
get_optimised_species(ok, g0, g1) ==
    [atoms |-> TRUE, graph |-> IF ok THEN g1 ELSE g0, failed |-> ~ok]

\* get_optimised_species attaching its calculation to the candidate
calc_after_get_optimised_species_attached(c, nm) == [c EXCEPT !.name = nm]

\* lines 336-338: the optimisation is a local Calculation; self.calc stays
calc_after_get_optimised_species(c, nm) == c

\* Species.optimise(method=get_lmethod(), reset_graph=True): final atoms and a
\* rebuilt graph, or neither
optimise(ok, g) ==
    IF ok THEN [atoms |-> TRUE, graph |-> g, failed |-> FALSE]
    ELSE [atoms |-> FALSE, graph |-> "none", failed |-> TRUE]

\* the low-level retry made even when the first check matched
after_first_isomorphism_retry(r) == "link_lopt_f"

\* lines 298-303: what follows the first isomorphism check
after_first_isomorphism(r) == IF r THEN "done" ELSE "link_lopt_f"

LinkUnchanged ==
    UNCHANGED <<entry, threshold, bond_rearrangement, reactant, product,
                hess_runs, prev, val, args>>

\* lines 291-292
LinkOptForward ==
    /\ pc = "link_opt_f"
    /\ \E ok \in BOOLEAN, g0 \in GraphClasses, g1 \in GraphClasses :
          lnk' = [lnk EXCEPT !.f_mol = get_optimised_species(ok, g0, g1)]
    /\ calc' = calc_after_get_optimised_species(calc, "opt_f")
    /\ last_run' = "opt_f"
    /\ trace' = Append(trace, "opt_f")
    /\ pc' = "link_opt_b"
    /\ UNCHANGED <<result, stage>>
    /\ LinkUnchanged

\* lines 295-296
LinkOptBackward ==
    /\ pc = "link_opt_b"
    /\ \E ok \in BOOLEAN, g0 \in GraphClasses, g1 \in GraphClasses :
          lnk' = [lnk EXCEPT !.b_mol = get_optimised_species(ok, g0, g1)]
    /\ calc' = calc_after_get_optimised_species(calc, "opt_b")
    /\ last_run' = "opt_b"
    /\ trace' = Append(trace, "opt_b")
    /\ pc' = "link_iso"
    /\ UNCHANGED <<result, stage>>
    /\ LinkUnchanged

\* the linker returns r to has_correct_imag_mode, which returns it (lines 88-93)
LinkReturn(r) ==
    /\ stage' = [stage EXCEPT !.link = Bool(r)]
    /\ result' = Bool(r)
    /\ pc' = "done"

\* lines 298-299
LinkIso ==
    /\ pc = "link_iso"
    /\ LET r == forwards_backwards_are_isomorphic_to_reactants_and_products(
                    lnk.f_mol, lnk.b_mol, reactant, product)
       IN  /\ lnk' = [lnk EXCEPT !.iso1 = Bool(r)]
           /\ IF after_first_isomorphism(r) = "done"
              THEN LinkReturn(TRUE)
              ELSE /\ pc' = after_first_isomorphism(r)
                   /\ UNCHANGED <<result, stage>>
    /\ trace' = Append(trace, "iso")
    /\ UNCHANGED <<calc, last_run>>
    /\ LinkUnchanged

\* lines 302-303, first pass of the loop: mol = f_displaced_mol
LinkLowOptForward ==
    /\ pc = "link_lopt_f"
    /\ \E ok \in BOOLEAN, g \in GraphClasses :
          lnk' = [lnk EXCEPT !.f_mol = optimise(ok, g)]
    /\ last_run' = "lopt_f"
    /\ trace' = Append(trace, "lopt_f")
    /\ pc' = "link_lopt_b"
    /\ UNCHANGED <<calc, result, stage>>
    /\ LinkUnchanged

\* lines 302-303, second pass of the loop: mol = b_displaced_mol
LinkLowOptBackward ==
    /\ pc = "link_lopt_b"
    /\ \E ok \in BOOLEAN, g \in GraphClasses :
          lnk' = [lnk EXCEPT !.b_mol = optimise(ok, g)]
    /\ last_run' = "lopt_b"
    /\ trace' = Append(trace, "lopt_b")
    /\ pc' = "link_iso2"
    /\ UNCHANGED <<calc, result, stage>>
    /\ LinkUnchanged

\* lines 305-310
LinkIso2 ==
    /\ pc = "link_iso2"
    /\ LET r == forwards_backwards_are_isomorphic_to_reactants_and_products(
                    lnk.f_mol, lnk.b_mol, reactant, product)
       IN  /\ lnk' = [lnk EXCEPT !.iso2 = Bool(r)]
           /\ LinkReturn(r)
    /\ trace' = Append(trace, "iso")
    /\ UNCHANGED <<calc, last_run>>
    /\ LinkUnchanged

\* ------------------------------------------------------------ the candidate's validation
Init ==
    /\ pc = "idle"
    /\ entry = "none"
    /\ threshold = DefaultFreqThreshold
    /\ result = "none"
    /\ calc = NoCalc
    /\ bond_rearrangement \in ExampleRearrangements
    /\ reactant = "R"
    /\ product = "P"
    /\ trace = <<>>
    /\ hess_runs = 0
    /\ last_run = "none"
    /\ stage = NoStage
    /\ prev = NoPrev
    /\ val = NoVal
    /\ lnk = NoLnk
    /\ args = NoArgs

Next ==
    \/ CallCouldHave
    \/ CallHasCorrect
    \/ ScreenHess
    \/ Screen
    \/ ValDetect
    \/ ValTrialForward
    \/ ValTrialBackward
    \/ LinkOptForward
    \/ LinkOptBackward
    \/ LinkIso
    \/ LinkLowOptForward
    \/ LinkLowOptBackward
    \/ LinkIso2

Spec == Init /\ [][Next]_vars

\* ------------------------------------------------------------ direct calls of the helpers
\* a Hessian with one significant imaginary mode, its modes and its atoms
ExampleCalc ==
    [attached |-> TRUE, name |-> "given", imag_freqs |-> <<-80>>,
     has_modes |-> TRUE, modes |-> ZeroModes,
     has_atoms |-> TRUE, atoms |-> ExampleAtoms]

Frame(e, p, c, br, a) ==
    /\ pc = p
    /\ entry = e
    /\ threshold = DefaultFreqThreshold
    /\ result = "none"
    /\ calc = c
    /\ bond_rearrangement = br
    /\ reactant = "R"
    /\ product = "P"
    /\ trace = <<>>
    /\ hess_runs = 0
    /\ last_run = "none"
    /\ stage = NoStage
    /\ prev = NoPrev
    /\ val = NoVal
    /\ lnk = NoLnk
    /\ args = a

\* imag_mode_has_correct_displacement(calc, bond_rearrangement)
InitDisp == \E br \in BondRearrangements : Frame("validator", "validator", ExampleCalc, br, NoArgs)

NextDisp ==
    \/ ValDetect
    \/ ValTrialForward
    \/ ValTrialBackward

SpecDisp == InitDisp /\ [][NextDisp]_vars

\* imag_mode_generates_other_bonds(ts, f_species, b_species, bond_rearrangement)
InitBonds == \E br \in OrientedRearrangements : Frame("detector", "validator", ExampleCalc, br, NoArgs)

NextBonds == ValDetect

SpecBonds == InitBonds /\ [][NextBonds]_vars

\* ts_has_contribution_from_active_atoms(calc, active_atoms), called on a
\* calculation and again on the same calculation with every displacement of
\* mode 6 multiplied by args.scale
Scales == {2, 3}

ContribCalcs ==
    {[attached |-> TRUE, name |-> "given", imag_freqs |-> <<-80>>,
      has_modes |-> TRUE, modes |-> m, has_atoms |-> TRUE, atoms |-> a] :
        m \in [Atoms -> DispVecs], a \in [Atoms -> Labels]}

scaled(c, k) ==
    [c EXCEPT !.modes = [i \in Atoms |-> <<k * c.modes[i][1], k * c.modes[i][2],
                                          k * c.modes[i][3]>>]]

InitContrib ==
    \E c \in ContribCalcs, act \in (SUBSET Atoms) \ {{}}, k \in Scales :
        Frame("contribution", "contribution", c, [fbonds |-> {}, bbonds |-> {}],
              [NoArgs EXCEPT !.active_atoms = act, !.scale = k])

ContribUnchanged ==
    UNCHANGED <<entry, threshold, bond_rearrangement, reactant, product, trace,
                hess_runs, last_run, stage, prev, val, lnk>>

\* the call on the calculation as it is
Contribution ==
    /\ pc = "contribution"
    /\ args' = [args EXCEPT
                  !.num = sum_active_atom_magnitudes(calc, args.active_atoms),
                  !.den = sum_all_magnitudes(calc),
                  !.first = ts_has_contribution_from_active_atoms(calc, args.active_atoms)]
    /\ pc' = "rescale"
    /\ UNCHANGED <<calc, result>>
    /\ ContribUnchanged

\* every displacement vector of the mode is multiplied by the scale factor
Rescale ==
    /\ pc = "rescale"
    /\ calc' = scaled(calc, args.scale)
    /\ pc' = "contribution_scaled"
    /\ UNCHANGED <<args, result>>
    /\ ContribUnchanged

\* the call on the scaled calculation
ContributionScaled ==
    /\ pc = "contribution_scaled"
    /\ result' = ts_has_contribution_from_active_atoms(calc, args.active_atoms)
    /\ pc' = "done"
    /\ UNCHANGED <<calc, args>>
    /\ ContribUnchanged

NextContrib ==
    \/ Contribution
    \/ Rescale
    \/ ContributionScaled

SpecContrib == InitContrib /\ [][NextContrib]_vars

\* ============================================================ claims
IsStage(e) == e \in {"screener", "validator", "linker"}
IsLinkerEvent(e) == e \in {"opt_f", "opt_b", "iso", "lopt_f", "lopt_b"}
StagesInvoked == SelectSeq(trace, IsStage)
LinkerEvents == SelectSeq(trace, IsLinkerEvent)
InTrace(e) == \E i \in 1..Len(trace) : trace[i] = e
IsPrefix(s, t) == Len(s) <= Len(t) /\ \A i \in 1..Len(s) : s[i] = t[i]

\* C1: has_correct_imag_mode invokes the Quick Screener, then the Displacement
\* Validator, then the Optimization Linker, in that order; a false screener
\* gives False with no validator, no linker and no optimisation; a true
\* validator gives True with no linker; otherwise the linker's result is returned.
C1_StagesInOrderWithShortCircuit ==
    entry = "has_correct" =>
        /\ IsPrefix(StagesInvoked, <<"screener", "validator", "linker">>)
        /\ InTrace("validator") => stage.screen = "True"
        /\ InTrace("linker") => stage.disp = "False"
        /\ (\E i \in 1..Len(trace) : IsLinkerEvent(trace[i])) => InTrace("linker")
        /\ pc = "done" =>
              /\ stage.screen = "False" =>
                    /\ result = "False"
                    /\ StagesInvoked = <<"screener">>
                    /\ LinkerEvents = <<>>
              /\ stage.disp = "True" =>
                    /\ result = "True"
                    /\ ~InTrace("linker")
                    /\ LinkerEvents = <<>>
              /\ (stage.screen = "True" /\ stage.disp = "False") =>
                    /\ stage.link \in {"True", "False"}
                    /\ result = stage.link

\* C1 witness: a call that went through all three stages and returned the linker's True
C1_Witness ==
    /\ entry = "has_correct" /\ pc = "done"
    /\ StagesInvoked = <<"screener", "validator", "linker">>
    /\ stage.link = "True" /\ result = "True"

C3_MissingDataIsFalse ==
    (stage.screen # "none" /\ (~calc.has_modes \/ ~calc.has_atoms)) =>
        stage.screen = "False"

\* C4 helper: in the displaced structure with distances p every forming bond is
\* shorter than in the TS, and every breaking bond longer, by more than delta_threshold
Satisfies(p) ==
    /\ \A fbond \in bond_rearrangement.fbonds :
          val.ts_dist[Canon(fbond)] - p[Canon(fbond)] > DeltaThreshold
    /\ \A bbond \in bond_rearrangement.bbonds :
          p[Canon(bbond)] - val.ts_dist[Canon(bbond)] > DeltaThreshold

\* one bond's condition in the structure with distances p
BondSatisfied(bond, p) ==
    IF bond \in bond_rearrangement.fbonds
    THEN val.ts_dist[Canon(bond)] - p[Canon(bond)] > DeltaThreshold
    ELSE p[Canon(bond)] - val.ts_dist[Canon(bond)] > DeltaThreshold

\* C4: imag_mode_has_correct_displacement returns True exactly when the
\* Spurious-Bond Detector did not flag and the forward structure, or else the
\* backward structure, meets the condition of every forming and every breaking
\* bond (strictly more than delta_threshold) within that one structure.
C4_DisplacementValidator ==
    (entry = "validator" /\ pc = "done") =>
        /\ result \in {"True", "False"}
        /\ result = "True" <=>
              /\ val.flagged = "False"
              /\ \/ val.f_ok # "none" /\ Satisfies(val.f_dist)
                 \/ val.b_ok # "none" /\ Satisfies(val.b_dist)
        /\ val.b_ok # "none" => ~Satisfies(val.f_dist)

\* C4 witness: every bond's condition is met in the forward or in the backward
\* structure, yet neither structure meets them all, and the result is False
C4_Witness ==
    /\ entry = "validator" /\ pc = "done" /\ result = "False"
    /\ val.flagged = "False" /\ val.b_ok = "False"
    /\ Cardinality(all_bonds(bond_rearrangement)) = 2
    /\ \A bond \in all_bonds(bond_rearrangement) :
          BondSatisfied(bond, val.f_dist) \/ BondSatisfied(bond, val.b_dist)

\* C5 helper: the displaced graph g has a bond that the TS graph lacks and that
\* is no bond of the rearrangement, written in either order
HasOtherBond(g) ==
    \E bond \in g :
        /\ Canon(bond) \notin BondsOf(val.ts_graph)
        /\ Canon(bond) \notin BondsOf(all_bonds(bond_rearrangement))

\* C5: imag_mode_generates_other_bonds signals failure exactly when the forward
\* or the backward displaced graph has an edge absent from the TS graph that is
\* no bond of the rearrangement, in whichever order the bond's atoms are written.
C5_DetectorFlagsOnlyOtherBonds ==
    (entry = "detector" /\ pc = "done") =>
        (result = "True" <=> (HasOtherBond(val.f_graph) \/ HasOtherBond(val.b_graph)))

\* the state right after the first isomorphism check of the linker
AfterFirstCheck ==
    /\ lnk.iso1 # "none" /\ lnk.iso2 = "none"
    /\ pc \in {"link_lopt_f", "done"}

\* the species is isomorphic to a structure whose graph is of class g
Isomorphic(mol, g) == mol.atoms /\ mol.graph = g

\* (backward ~ reactant and forward ~ product) or (forward ~ reactant and backward ~ product)
LinksReactantProduct ==
    \/ Isomorphic(lnk.b_mol, reactant) /\ Isomorphic(lnk.f_mol, product)
    \/ Isomorphic(lnk.f_mol, reactant) /\ Isomorphic(lnk.b_mol, product)

\* C6: when an optimisation of a displaced structure gave no final coordinates,
\* the isomorphism check of that attempt is False.
C6_FailedOptimisationNeverMatches ==
    /\ (AfterFirstCheck /\ (lnk.f_mol.failed \/ lnk.b_mol.failed)) => lnk.iso1 = "False"
    /\ (lnk.iso2 # "none" /\ (lnk.f_mol.failed \/ lnk.b_mol.failed)) => lnk.iso2 = "False"

DispActive == Sum(imag_mode_magnitudes(calc), args.active_atoms)
DispAll == Sum(imag_mode_magnitudes(calc), Atoms)
WeightActive == Sum([i \in Atoms |-> get_atomic_weight(calc.atoms[i])], args.active_atoms)
WeightAll == Sum([i \in Atoms |-> get_atomic_weight(calc.atoms[i])], Atoms)

\* the ratio before scaling (args.num / args.den) equals the ratio after
SameRatio ==
    args.num * sum_all_magnitudes(calc)
        = sum_active_atom_magnitudes(calc, args.active_atoms) * args.den

C9_ScreenerIdempotentOneHessian ==
    /\ [](hess_runs <= 1)
    /\ [][(pc = "screen_hess" /\ calc.attached) =>
             (calc' = calc /\ hess_runs' = hess_runs)]_vars
    /\ [][(pc = "screen_hess" /\ ~calc.attached) =>
             (calc'.attached /\ hess_runs' = hess_runs + 1)]_vars
    /\ [][(pc = "screen_freqs" /\ prev.valid /\ prev.threshold = threshold) =>
             stage'.screen = prev.result]_vars

\* C9 witness: a second Quick Screener call completed on the Hessian an earlier
\* call ran, with the same threshold and the same result
C9_Witness ==
    /\ entry = "could_have" /\ pc = "done"
    /\ ~InTrace("hessian") /\ hess_runs = 1 /\ calc.name = "ts_hess"
    /\ result = "True"

\* C10 as stated: every step that runs a new calculation leaves that
\* calculation attached to the candidate.
C10_AttachedIsMostRecent ==
    [][(last_run' # last_run) => calc'.name = last_run']_vars

\* C10 amended: only the Hessian run of the Quick Screener replaces the attached
\* calculation; the optimisations of the Optimization Linker leave it as it was.
C10_OnlyHessianIsAttached ==
    [][(last_run' # last_run) =>
          IF last_run' = "ts_hess"
          THEN ~calc.attached /\ calc'.attached /\ calc'.name = "ts_hess"
          ELSE calc' = calc]_vars

\* C10 witness: the low-level optimisations have run and the attached
\* calculation is still the Hessian
C10_Witness ==
    /\ last_run = "lopt_b" /\ calc.attached /\ calc.name = "ts_hess"

====
